---- MODULE Spec2Model ----
\* Model of cpp/example_code/sns/get_subscription_attributes.cpp:
\* main and AwsDoc::SNS::getSubscriptionAttributes, one action per statement
\* group, with the SNS service as an environment that answers the blocking call.
EXTENDS Integers, Sequences, FiniteSets, TLC

\* ---------------------------------------------------------------- bounds
MaxArgc == 3
MaxAttrs == 2

\* ---------------------------------------------------------------- input domains
\* Strings that can appear in argv (the empty string included).
ArgStrings == {"", "arn:aws:sns:sub"}
\* Attribute names the service can return, listed in the order std::map
\* (Aws::Map) iterates them: ascending by key.
AttrNames == <<"Endpoint", "Owner", "Protocol", "SubscriptionArn", "TopicArn">>
AttrValues == {"", "v"}
ErrorMessages == {"", "NotFound"}

Keys == {AttrNames[i] : i \in 1..MaxAttrs}
Rank(k) == CHOOSE i \in 1..Len(AttrNames) : AttrNames[i] = k
EmptyMap == [k \in {} |-> ""]
AttributeMaps == UNION {[S -> AttrValues] : S \in SUBSET Keys}

\* GetSubscriptionAttributesOutcome: success flag, result mapping, error message.
NoOutcome == [kind |-> "none", attrs |-> EmptyMap, msg |-> ""]
SuccessOutcome(m) == [kind |-> "success", attrs |-> m, msg |-> ""]
FailureOutcome(e) == [kind |-> "failure", attrs |-> EmptyMap, msg |-> e]
IsSuccess(o) == o.kind = "success"

\* ---------------------------------------------------------------- output lines
\* A line is the tuple of the items streamed with << before std::endl.
UsageLine == <<"Usage: runn_get_subscription_attributes <subscription_arn>">>
HeaderLine == <<"Topic Attributes:">>
AttributeLine(k, v) == <<"  * ", k, " : ", v>>
ErrorLine(e) == <<"Error while getting Topic attributes ", e>>

VARIABLES
    argc,        \* main's argc
    argv,        \* main's argv; argv[i+1] here is argv[i] in C
    mpc,         \* position of main
    gpc,         \* position of getSubscriptionAttributes
    topicARN,    \* the parameter of getSubscriptionAttributes
    request,     \* request.SubscriptionArn
    requests,    \* subscription ARNs of the requests received by the service
    outcome,     \* the outcome object of the call
    remaining,   \* keys of the mapping the range-for has not visited yet
    stdout,      \* lines written to std::cout
    stderr,      \* lines written to std::cerr
    result,      \* value returned by getSubscriptionAttributes
    exitCode,    \* value returned by main
    events       \* SDK lifecycle events in the order they happen

vars == <<argc, argv, mpc, gpc, topicARN, request, requests, outcome,
          remaining, stdout, stderr, result, exitCode, events>>

None == "none"
NoExit == -1

Init ==
    /\ argc \in 0..MaxArgc
    /\ argv \in [1..argc -> ArgStrings]
    /\ mpc = "start"
    /\ gpc = "idle"
    /\ topicARN = None
    /\ request = None
    /\ requests = <<>>
    /\ outcome = NoOutcome
    /\ remaining = {}
    /\ stdout = <<>>
    /\ stderr = <<>>
    /\ result = None
    /\ exitCode = NoExit
    /\ events = <<>>

\* ---------------------------------------------------------------- main
ArgsOkGe == argc >= 2
\* line 68: the negation of (argc != 2)
ArgsOk == argc = 2

MainUsageInit ==
    /\ mpc = "start"
    /\ ~ArgsOk
    /\ stdout' = Append(stdout, UsageLine)
    /\ events' = Append(events, "InitAPI")
    /\ exitCode' = 1
    /\ mpc' = "exited"
    /\ UNCHANGED <<argc, argv, gpc, topicARN, request, requests, outcome,
                   remaining, stderr, result>>
\* lines 68-71
MainUsage ==
    /\ mpc = "start"
    /\ ~ArgsOk
    /\ stdout' = Append(stdout, UsageLine)
    /\ exitCode' = 1
    /\ mpc' = "exited"
    /\ UNCHANGED <<argc, argv, gpc, topicARN, request, requests, outcome,
                   remaining, stderr, result, events>>

\* lines 68, 73-75
MainInitAPI ==
    /\ mpc = "start"
    /\ ArgsOk
    /\ events' = Append(events, "InitAPI")
    /\ mpc' = "call"
    /\ UNCHANGED <<argc, argv, gpc, topicARN, request, requests, outcome,
                   remaining, stdout, stderr, result, exitCode>>

\* lines 77-83: topicARN(argv[1]) and the call of getSubscriptionAttributes
MainCall ==
    /\ mpc = "call"
    /\ topicARN' = argv[2]
    /\ gpc' = "construct"
    /\ mpc' = "in_call"
    /\ UNCHANGED <<argc, argv, request, requests, outcome, remaining,
                   stdout, stderr, result, exitCode, events>>

\* line 85
MainShutdown ==
    /\ mpc = "shutdown"
    /\ events' = Append(events, "ShutdownAPI")
    /\ mpc' = "ret"
    /\ UNCHANGED <<argc, argv, gpc, topicARN, request, requests, outcome,
                   remaining, stdout, stderr, result, exitCode>>

MainReturnResult ==
    /\ mpc = "ret"
    /\ exitCode' = IF result = TRUE THEN 0 ELSE 1
    /\ mpc' = "exited"
    /\ UNCHANGED <<argc, argv, gpc, topicARN, request, requests, outcome,
                   remaining, stdout, stderr, result, events>>
\* line 86
MainReturn0 ==
    /\ mpc = "ret"
    /\ exitCode' = 0
    /\ mpc' = "exited"
    /\ UNCHANGED <<argc, argv, gpc, topicARN, request, requests, outcome,
                   remaining, stdout, stderr, result, events>>

\* ---------------------------------------------------------------- getSubscriptionAttributes
ConstructValidating ==
    /\ gpc = "construct"
    /\ events' = Append(events, "ClientCreate")
    /\ request' = topicARN
    /\ gpc' = IF topicARN = "" THEN "ret" ELSE "invoke"
    /\ UNCHANGED <<argc, argv, mpc, topicARN, requests, outcome, remaining,
                   stdout, stderr, result, exitCode>>
\* lines 31-33: the client, the request, SetSubscriptionArn(topicARN)
Construct ==
    /\ gpc = "construct"
    /\ events' = Append(events, "ClientCreate")
    /\ request' = topicARN
    /\ gpc' = "invoke"
    /\ UNCHANGED <<argc, argv, mpc, topicARN, requests, outcome, remaining,
                   stdout, stderr, result, exitCode>>

\* line 35: snsClient.GetSubscriptionAttributes(request) is entered; the
\* request leaves for the service and the caller blocks.
Invoke ==
    /\ gpc = "invoke"
    /\ requests' = Append(requests, request)
    /\ events' = Append(events, "RemoteCall")
    /\ gpc' = "blocked"
    /\ UNCHANGED <<argc, argv, mpc, topicARN, request, outcome, remaining,
                   stdout, stderr, result, exitCode>>

RemoteReturnOrTimeout ==
    /\ gpc = "blocked"
    /\ \/ /\ \E o \in {SuccessOutcome(m) : m \in AttributeMaps}
                      \cup {FailureOutcome(e) : e \in ErrorMessages} :
                outcome' = o
          /\ events' = Append(events, "RemoteReturn")
          /\ gpc' = "branch"
       \/ /\ UNCHANGED <<outcome, events>>
          /\ gpc' = "ret"
    /\ UNCHANGED <<argc, argv, mpc, topicARN, request, requests, remaining,
                   stdout, stderr, result, exitCode>>
\* lines 35-36: the blocking call returns with the outcome the SDK built.
RemoteReturn ==
    /\ gpc = "blocked"
    /\ \E o \in {SuccessOutcome(m) : m \in AttributeMaps}
                \cup {FailureOutcome(e) : e \in ErrorMessages} :
          outcome' = o
    /\ events' = Append(events, "RemoteReturn")
    /\ gpc' = "branch"
    /\ UNCHANGED <<argc, argv, mpc, topicARN, request, requests, remaining,
                   stdout, stderr, result, exitCode>>

\* lines 38-40: the success branch prints the header and starts the range-for
PrintHeader ==
    /\ gpc = "branch"
    /\ IsSuccess(outcome)
    /\ stdout' = Append(stdout, HeaderLine)
    /\ remaining' = DOMAIN outcome.attrs
    /\ gpc' = "loop"
    /\ UNCHANGED <<argc, argv, mpc, topicARN, request, requests, outcome,
                   stderr, result, exitCode, events>>

\* the element the map iterator points at: the smallest unvisited key
NextKey == CHOOSE k \in remaining : \A j \in remaining : Rank(k) <= Rank(j)

PrintAttributeTwice ==
    /\ gpc = "loop"
    /\ remaining # {}
    /\ stdout' = stdout \o <<AttributeLine(NextKey, outcome.attrs[NextKey]),
                             AttributeLine(NextKey, outcome.attrs[NextKey])>>
    /\ remaining' = remaining \ {NextKey}
    /\ UNCHANGED <<argc, argv, mpc, gpc, topicARN, request, requests, outcome,
                   stderr, result, exitCode, events>>
\* lines 40-43: one iteration of the range-for
PrintAttribute ==
    /\ gpc = "loop"
    /\ remaining # {}
    /\ stdout' = Append(stdout, AttributeLine(NextKey, outcome.attrs[NextKey]))
    /\ remaining' = remaining \ {NextKey}
    /\ UNCHANGED <<argc, argv, mpc, gpc, topicARN, request, requests, outcome,
                   stderr, result, exitCode, events>>

LoopEndEarly ==
    /\ gpc = "loop"
    /\ remaining # DOMAIN outcome.attrs \/ remaining = {}
    /\ remaining' = {}
    /\ gpc' = "ret"
    /\ UNCHANGED <<argc, argv, mpc, topicARN, request, requests, outcome,
                   stdout, stderr, result, exitCode, events>>
\* lines 40, 44: the iterator reached end()
LoopEnd ==
    /\ gpc = "loop"
    /\ remaining = {}
    /\ gpc' = "ret"
    /\ UNCHANGED <<argc, argv, mpc, topicARN, request, requests, outcome,
                   remaining, stdout, stderr, result, exitCode, events>>

PrintErrorNoMessage ==
    /\ gpc = "branch"
    /\ ~IsSuccess(outcome)
    /\ stderr' = Append(stderr, <<"Error while getting Topic attributes ">>)
    /\ gpc' = "ret"
    /\ UNCHANGED <<argc, argv, mpc, topicARN, request, requests, outcome,
                   remaining, stdout, result, exitCode, events>>
PrintErrorToCout ==
    /\ gpc = "branch"
    /\ ~IsSuccess(outcome)
    /\ stdout' = Append(stdout, ErrorLine(outcome.msg))
    /\ gpc' = "ret"
    /\ UNCHANGED <<argc, argv, mpc, topicARN, request, requests, outcome,
                   remaining, stderr, result, exitCode, events>>
\* lines 45-49: the failure branch
PrintError ==
    /\ gpc = "branch"
    /\ ~IsSuccess(outcome)
    /\ stderr' = Append(stderr, ErrorLine(outcome.msg))
    /\ gpc' = "ret"
    /\ UNCHANGED <<argc, argv, mpc, topicARN, request, requests, outcome,
                   remaining, stdout, result, exitCode, events>>

ReturnRetry ==
    /\ gpc = "ret"
    /\ IF ~IsSuccess(outcome) /\ Len(requests) < 2
       THEN /\ gpc' = "invoke"
            /\ UNCHANGED <<result, events, mpc>>
       ELSE /\ result' = IsSuccess(outcome)
            /\ events' = Append(events, "ClientDestroy")
            /\ gpc' = "returned"
            /\ mpc' = "shutdown"
    /\ UNCHANGED <<argc, argv, topicARN, request, requests, outcome,
                   remaining, stdout, stderr, exitCode>>
\* lines 51-52: return outcome.IsSuccess(); snsClient is destroyed; control
\* is back in main at line 84.
Return ==
    /\ gpc = "ret"
    /\ result' = IsSuccess(outcome)
    /\ events' = Append(events, "ClientDestroy")
    /\ gpc' = "returned"
    /\ mpc' = "shutdown"
    /\ UNCHANGED <<argc, argv, topicARN, request, requests, outcome,
                   remaining, stdout, stderr, exitCode>>

\* ---------------------------------------------------------------- specifications
\* The steps the process takes on its own (everything but the service's answer).
Local ==
    \/ MainUsage
    \/ MainInitAPI
    \/ MainCall
    \/ Construct
    \/ Invoke
    \/ PrintHeader
    \/ PrintAttribute
    \/ LoopEnd
    \/ PrintError
    \/ Return
    \/ MainShutdown
    \/ MainReturn0

Next ==
    \/ MainUsage
    \/ MainInitAPI
    \/ MainCall
    \/ Construct
    \/ Invoke
    \/ RemoteReturn
    \/ PrintHeader
    \/ PrintAttribute
    \/ LoopEnd
    \/ PrintError
    \/ Return
    \/ MainShutdown
    \/ MainReturn0

Spec == Init /\ [][Next]_vars

\* A single-threaded process keeps executing its own statements; nothing is
\* assumed about the service ever answering.
FairSpec == Spec /\ WF_vars(Local)

\* ---------------------------------------------------------------- properties
Lines(stream) == {stream[i] : i \in 1..Len(stream)}
Count(stream, x) == Cardinality({i \in 1..Len(stream) : stream[i] = x})
Positions(x) == {i \in 1..Len(events) : events[i] = x}
Before(x, y) == \A i \in Positions(x), j \in Positions(y) : i < j
Returned == gpc = "returned"
Contains(l, x) == \E i \in 1..Len(l) : l[i] = x

\* C1: once getSubscriptionAttributes has returned from a successful outcome,
\* every key/value pair of the returned mapping is on standard output and the
\* function's result is true.
C1_SuccessPrintsAllAndReturnsTrue ==
    (Returned /\ IsSuccess(outcome)) =>
        /\ result = TRUE
        /\ \A k \in DOMAIN outcome.attrs :
              AttributeLine(k, outcome.attrs[k]) \in Lines(stdout)

C1_Witness ==
    /\ Returned
    /\ IsSuccess(outcome)
    /\ Cardinality(DOMAIN outcome.attrs) = MaxAttrs
    /\ result = TRUE

\* C2: once getSubscriptionAttributes has returned from a failing outcome, a
\* line carrying the outcome's error message has been printed and the
\* function's result is false.
C2_FailurePrintsErrorAndReturnsFalse ==
    (Returned /\ ~IsSuccess(outcome)) =>
        /\ result = FALSE
        /\ \E l \in Lines(stderr) \cup Lines(stdout) : Contains(l, outcome.msg)

C2_Witness ==
    /\ Returned
    /\ outcome = FailureOutcome("NotFound")
    /\ result = FALSE
    /\ stderr = <<ErrorLine("NotFound")>>

\* C3: with argc != 2 the remote call is never issued, and when main has
\* exited it has printed the usage message and its exit status is 1.
C3_BadArgcUsageExit1NoCall ==
    argc # 2 =>
        /\ requests = <<>>
        /\ gpc = "idle"
        /\ mpc = "exited" => (stdout = <<UsageLine>> /\ exitCode = 1)

C3_Witness ==
    /\ argc = 3
    /\ mpc = "exited"
    /\ exitCode = 1
    /\ stdout = <<UsageLine>>

\* C4: with exactly one command-line argument main's exit code is 0, whatever
\* getSubscriptionAttributes returned.
C4_OneArgExitZero ==
    (argc = 2 /\ mpc = "exited") => exitCode = 0

C4_Witness ==
    /\ argc = 2
    /\ mpc = "exited"
    /\ result = FALSE
    /\ exitCode = 0

\* C5: an invocation of getSubscriptionAttributes issues the remote call at
\* most once at any time, exactly once by the time it returns, and no step
\* taken after an outcome has arrived issues another call.
C5_ExactlyOneRemoteCall ==
    /\ Len(requests) <= 1
    /\ Returned => Len(requests) = 1
    /\ outcome # NoOutcome => Count(events, "RemoteCall") = 1

C5_Witness ==
    /\ Returned
    /\ ~IsSuccess(outcome)
    /\ Len(requests) = 1

\* C6: whatever the identifier, the empty string included, once the function
\* is past the point of the call the service has received a request, and the
\* subscription ARN it carries is the string the caller supplied, unchanged.
C6_NoValidationArnUnchanged ==
    gpc \in {"blocked", "branch", "loop", "ret", "returned"} =>
        /\ Len(requests) >= 1
        /\ \A i \in 1..Len(requests) : requests[i] = argv[2]

C6_Witness ==
    /\ Returned
    /\ argv[2] = ""
    /\ requests = <<"">>

\* C7: the fetcher seen as pending/done. Once done it stays done; it leaves
\* the blocking call only by the call returning an outcome (no timeout, no
\* cancellation); and once the call has returned the function reaches done.
FetcherState == IF gpc = "returned" THEN "done" ELSE "pending"

C7_PendingDone ==
    /\ [][FetcherState = "done" => FetcherState' = "done"]_vars
    /\ [][(gpc = "blocked" /\ outcome' = NoOutcome) => gpc' = "blocked"]_vars
    /\ (outcome # NoOutcome) ~> (FetcherState = "done")

C7_Witness ==
    /\ gpc = "returned"
    /\ outcome # NoOutcome

\* C8: getSubscriptionAttributes never writes to both streams; after a
\* successful outcome it has written to standard output only, after a failing
\* outcome to standard error only.
C8_StreamsExclusive ==
    gpc # "idle" =>
        /\ ~(stdout # <<>> /\ stderr # <<>>)
        /\ (Returned /\ IsSuccess(outcome)) => (stdout # <<>> /\ stderr = <<>>)
        /\ (Returned /\ ~IsSuccess(outcome)) => (stderr # <<>> /\ stdout = <<>>)

C8_Witness ==
    /\ Returned
    /\ ~IsSuccess(outcome)
    /\ stderr # <<>>
    /\ stdout = <<>>

\* C9: InitAPI precedes the remote call; ShutdownAPI follows the call's return
\* and the destruction of the client, on success and on failure; with
\* argc != 2 neither is called; when main has exited the two have been called
\* equally often.
C9_LifecycleOrder ==
    /\ Positions("RemoteCall") # {} => Positions("InitAPI") # {}
    /\ Before("InitAPI", "RemoteCall")
    /\ Positions("ShutdownAPI") # {} =>
          /\ Positions("RemoteReturn") # {}
          /\ Positions("ClientDestroy") # {}
    /\ Before("RemoteReturn", "ShutdownAPI")
    /\ Before("ClientDestroy", "ShutdownAPI")
    /\ argc # 2 => (Positions("InitAPI") = {} /\ Positions("ShutdownAPI") = {})
    /\ (argc = 2 /\ mpc = "exited") => Count(events, "ShutdownAPI") = 1
    /\ mpc = "exited" => Count(events, "ShutdownAPI") = Count(events, "InitAPI")

C9_Witness ==
    /\ mpc = "exited"
    /\ argc = 2
    /\ events = <<"InitAPI", "ClientCreate", "RemoteCall", "RemoteReturn",
                  "ClientDestroy", "ShutdownAPI">>

\* C10: after a successful outcome the header is the first line and occurs
\* once, every other line is the line of one entry of the mapping, each entry
\* has exactly one line, and the function returns true; for an empty mapping
\* the output is the header alone.
C10_HeaderOnceEntriesOnce ==
    (Returned /\ IsSuccess(outcome)) =>
        /\ Len(stdout) = 1 + Cardinality(DOMAIN outcome.attrs)
        /\ stdout[1] = HeaderLine
        /\ Count(stdout, HeaderLine) = 1
        /\ \A k \in DOMAIN outcome.attrs :
              Count(stdout, AttributeLine(k, outcome.attrs[k])) = 1
        /\ outcome.attrs = EmptyMap => stdout = <<HeaderLine>>
        /\ result = TRUE

C10_Witness ==
    /\ Returned
    /\ outcome = SuccessOutcome(EmptyMap)
    /\ stdout = <<HeaderLine>>
    /\ result = TRUE

====
